---- MODULE Spec2Model ----
(***************************************************************************)
(* A model of the pruning core of tensorflow-low-rank:                     *)
(*   src/src/lowrank/pruners/__init__.py        Pruner.__init__, prune     *)
(*   src/src/lowrank/pruners/alignment_pruner.py AlignmentPruner           *)
(* The low-rank layer (lowrank/low_rank_layer.py), the scoring base class  *)
(* AbstractPrunerBase with create_mask / set_mask_on_layer, the threshold  *)
(* selection and MagPruner are not among the sources; they are modelled    *)
(* from spec.md.                                                           *)
(*                                                                         *)
(* Python list positions are 0-based; sequences here are 1-based, so       *)
(* component i of the code is position i + 1 of a mask.                    *)
(* A sparsity is the rational k / SparsityDen, stored as its numerator k.  *)
(***************************************************************************)
EXTENDS Integers, Sequences, FiniteSets, TLC

MaxLayers == 3
MaxRank == 2
SparsityDen == 2

None == "None"
NoCapacity == 0 - 1     \* rank_capacity is None

VARIABLES
    layers,        \* model.layers: the layer objects, in model order
    pruner,        \* the attributes of the Pruner object under construction / in use
    pc,            \* position of the caller inside Pruner(...) / prune()
    fault,         \* the exception that ended the last constructor or prune() call
    masks,         \* prune(): the value returned by compute_masks()
    idx,           \* prune(): position of the zip(masks, low_rank_layers) loop
    calls,         \* calls made on layers and model since prune() was entered
    arg_sparsity,  \* history: the sparsity argument of the last Pruner(...) call
    entry,         \* history: the layers as they were when prune() was entered
    before,        \* history: the layers as they were when compute_masks() was invoked
    layer_ind,     \* compute_scores(): enumerate position over layers_to_prune
    comp,          \* compute_scores(): the loop variable i of range(rank_capacity)
    scores,        \* compute_scores(): scores
    baseline,      \* compute_scores(): baseline_output_activation
    layer_scores   \* compute_scores(): layer_scores

vars == <<layers, pruner, pc, fault, masks, idx, calls, arg_sparsity, entry, before,
          layer_ind, comp, scores, baseline, layer_scores>>

prune_locals == <<masks, idx>>
score_locals == <<layer_ind, comp, scores, baseline, layer_scores>>
history == <<arg_sparsity, entry, before>>

----------------------------------------------------------------------------
(* Helpers *)

AllTrue(n) == [j \in 1..n |-> TRUE]

CountTrue(mask) == Cardinality({j \in DOMAIN mask : mask[j]})

Min(a, b) == IF a < b THEN a ELSE b

Event(op, l) == [op |-> op, layer |-> l]

CallsOf(op, l) == Cardinality({n \in DOMAIN calls : calls[n] = Event(op, l)})

----------------------------------------------------------------------------
(* The low-rank layer capability contract (spec.md sections 3 and 6) *)

\* sv is the layer's storage: one singular value per stored component.
DenseLayer ==
    [kind |-> "Dense", max_rank |-> 0, rank_capacity |-> NoCapacity, mask |-> <<>>,
     sv |-> <<>>]

LowRankLayer(r) ==
    [kind |-> "LowRank", max_rank |-> r, rank_capacity |-> NoCapacity,
     mask |-> AllTrue(r), sv |-> [j \in 1..r |-> (j % 2) + 1]]

\* The model architectures of tests/model.py, MaxLayers layers long:
\* get_lr_conv_model alternates low-rank layers with pooling layers, get_model
\* has one low-rank layer before its last dense layer. A model without any
\* low-rank layer is the third shape.
AlternatingKinds == [n \in 1..MaxLayers |-> IF n % 2 = 1 THEN "LowRank" ELSE "Dense"]

SingleKinds == [n \in 1..MaxLayers |-> IF n = MaxLayers - 1 THEN "LowRank" ELSE "Dense"]

DenseKinds == [n \in 1..MaxLayers |-> "Dense"]

Models ==
    {ls \in [1..MaxLayers -> {DenseLayer} \cup {LowRankLayer(r) : r \in 1..MaxRank}] :
        \E kinds \in {AlternatingKinds, SingleKinds, DenseKinds} :
            \A n \in 1..MaxLayers : ls[n].kind = kinds[n]}

set_rank_capacity(layer, n) == [layer EXCEPT !.rank_capacity = n, !.mask = AllTrue(n)]

set_mask(layer, mask) == [layer EXCEPT !.mask = mask]

\* The positions of seq s that mask marks True, in order.
Surviving(s, mask) ==
    LET F[n \in 0..Len(s)] ==
            IF n = 0 THEN <<>>
            ELSE IF n \in DOMAIN mask /\ mask[n] THEN Append(F[n - 1], s[n])
            ELSE F[n - 1]
    IN  F[Len(s)]

squeeze_rank_capacity(layer) ==
    [layer EXCEPT !.rank_capacity = CountTrue(layer.mask),
                  !.mask = AllTrue(CountTrue(layer.mask)),
                  !.sv = Surviving(layer.sv, layer.mask)]

----------------------------------------------------------------------------
(* Pruner.__init__ *)

PruningScope == {"GLOBAL", "LOCAL"}

PrunerClasses == {"Pruner", "StubPruner", "MagPruner", "AlignmentPruner"}

Sparsities == (0 - 1)..(SparsityDen + 1)

\* The constructor calls made: (class, scope, sparsity, data, loss). The
\* experiments construct pruners as (model, LOCAL, sparsity) and as
\* (model, GLOBAL, sparsity, data, loss); only the alignment scorer reads data.
ConstructorCalls ==
    {<<cls, "LOCAL", sparsity, None, None>> :
        cls \in PrunerClasses, sparsity \in Sparsities}
    \cup {<<cls, "GLOBAL", sparsity, "data", "loss">> :
        cls \in {"MagPruner", "AlignmentPruner"}, sparsity \in Sparsities}
    \cup {<<"AlignmentPruner", "LOCAL", sparsity, "data", "loss">> :
        sparsity \in Sparsities}

\* attrs is the set of attributes assigned on the object so far; an attribute
\* outside attrs does not exist yet and its field holds a placeholder.
NoPruner ==
    [cls |-> None, attrs |-> {}, model |-> None, scope |-> None, sparsity |-> 0,
     data |-> None, loss |-> None, low_rank_layers |-> <<>>]

\* line 31: sparsity < 0 or sparsity > 1
SparsityInvalid_mut(sparsity) == sparsity <= 0 \/ sparsity > SparsityDen

SparsityInvalid(sparsity) == sparsity < 0 \/ sparsity > SparsityDen

\* lines 36-38: filter(isinstance(x, LowRankLayer), model.layers), order kept
LowRankFilter(ls) ==
    LET keep == {n \in DOMAIN ls : ls[n].kind = "LowRank"}
        F[n \in 0..Len(ls)] ==
            IF n = 0 THEN <<>>
            ELSE IF n \in keep THEN Append(F[n - 1], n) ELSE F[n - 1]
    IN  F[Len(ls)]

Pruner_init(cls, scope, sparsity, data, loss) ==
    /\ pc \in {"idle", "rejected", "done", "failed"}
    /\ IF SparsityInvalid(sparsity)
       THEN /\ pruner' = [NoPruner EXCEPT !.cls = cls, !.attrs = {"model", "scope"},
                                            !.model = "model", !.scope = scope]
            /\ fault' = "ValueError: sparsity"
            /\ pc' = "rejected"
       ELSE /\ pruner' = [cls |-> cls,
                          attrs |-> {"model", "scope", "sparsity", "data", "loss",
                                     "low_rank_layers"},
                          model |-> "model", scope |-> scope,
                          sparsity |-> sparsity, data |-> data, loss |-> loss,
                          low_rank_layers |-> LowRankFilter(layers)]
            /\ fault' = None
            /\ pc' = "constructed"
    /\ masks' = <<>>
    /\ idx' = 0
    /\ calls' = <<>>
    /\ arg_sparsity' = sparsity
    /\ entry' = <<>>
    /\ before' = <<>>
    /\ UNCHANGED <<layers, score_locals>>

----------------------------------------------------------------------------
(* Pruner.prune *)

Target(n) == pruner.low_rank_layers[n]

NumTargets == Len(pruner.low_rank_layers)

\* line 52: layer.rank_capacity is None
NeedsCapacity_always(layer) == TRUE

NeedsCapacity_never(layer) == FALSE

NeedsCapacity(layer) == layer.rank_capacity = NoCapacity

\* lines 51-53
prune_init_capacity ==
    /\ pc = "constructed"
    /\ entry' = layers
    /\ layers' = [n \in DOMAIN layers |->
                    IF layers[n].kind = "LowRank" /\ NeedsCapacity(layers[n])
                    THEN set_rank_capacity(layers[n], layers[n].max_rank)
                    ELSE layers[n]]
    /\ before' = layers'
    /\ pc' = "compute_masks"
    /\ UNCHANGED <<pruner, fault, prune_locals, calls, arg_sparsity, score_locals>>

\* lines 40-44: the base class's compute_masks
compute_masks_base ==
    /\ pc = "compute_masks"
    /\ pruner.cls = "Pruner"
    /\ fault' = "NotImplementedError"
    /\ pc' = "failed"
    /\ UNCHANGED <<layers, pruner, prune_locals, calls, history, score_locals>>

\* A scoring strategy under test: compute_masks() may return any list of masks.
\* Per target layer the mask is any boolean sequence of the layer's capacity, or
\* an all-True one that is one too long or one too short; the list may also
\* lack its last mask or carry one mask too many.
MaskChoices(c) ==
    [1..c -> BOOLEAN] \cup {AllTrue(c + 1)} \cup (IF c > 0 THEN {AllTrue(c - 1)} ELSE {})

StubResults ==
    LET exact == {ms \in [1..NumTargets -> UNION {MaskChoices(c) : c \in 0..MaxRank}] :
                     \A n \in 1..NumTargets :
                         ms[n] \in MaskChoices(layers[Target(n)].rank_capacity)}
        valid == {ms \in exact :
                     \A n \in 1..NumTargets :
                         Len(ms[n]) = layers[Target(n)].rank_capacity}
    IN  exact
        \cup {Append(ms, AllTrue(1)) : ms \in valid}
        \cup {SubSeq(ms, 1, NumTargets - 1) : ms \in {m \in valid : NumTargets > 0}}

compute_masks_stub ==
    /\ pc = "compute_masks"
    /\ pruner.cls = "StubPruner"
    /\ \E ms \in StubResults : masks' = ms
    /\ pc' = "check_count"
    /\ UNCHANGED <<layers, pruner, fault, idx, calls, history, score_locals>>

\* line 55: len(masks) != len(self.low_rank_layers)
CountMismatch_skip(ms, lrl) == FALSE

CountMismatch(ms, lrl) == Len(ms) # Len(lrl)

\* lines 55-56
prune_check_count ==
    /\ pc = "check_count"
    /\ IF CountMismatch(masks, pruner.low_rank_layers)
       THEN /\ fault' = "ValueError: mask count"
            /\ pc' = "failed"
            /\ idx' = idx
       ELSE /\ fault' = fault
            /\ pc' = "apply_next"
            /\ idx' = 1
    /\ UNCHANGED <<layers, pruner, masks, calls, history, score_locals>>

\* line 57: zip(masks, self.low_rank_layers) stops at the shorter of the two
ZipLen == Min(Len(masks), NumTargets)

\* line 58: layer.rank_capacity == len(mask)
MaskFits_skip(layer, mask) == TRUE

MaskFits(layer, mask) == layer.rank_capacity = Len(mask)

\* lines 57-60: the next (mask, layer) pair and its assertion; line 63 once the
\* pairs are exhausted
prune_apply_next ==
    /\ pc = "apply_next"
    /\ IF idx > ZipLen
       THEN /\ calls' = Append(calls, Event("_reset_compile_cache", 0))
            /\ pc' = "done"
            /\ fault' = fault
       ELSE IF MaskFits(layers[Target(idx)], masks[idx])
       THEN /\ pc' = "apply_set_mask"
            /\ UNCHANGED <<calls, fault>>
       ELSE /\ fault' = "AssertionError: mask length"
            /\ pc' = "failed"
            /\ calls' = calls
    /\ UNCHANGED <<layers, pruner, prune_locals, history, score_locals>>

\* line 61
prune_set_mask_skip ==
    /\ pc = "apply_set_mask"
    /\ pc' = "apply_squeeze"
    /\ calls' = Append(calls, Event("set_mask", Target(idx)))
    /\ UNCHANGED <<layers, pruner, fault, prune_locals, history, score_locals>>

prune_set_mask ==
    /\ pc = "apply_set_mask"
    /\ layers' = [layers EXCEPT ![Target(idx)] = set_mask(@, masks[idx])]
    /\ calls' = Append(calls, Event("set_mask", Target(idx)))
    /\ pc' = "apply_squeeze"
    /\ UNCHANGED <<pruner, fault, prune_locals, history, score_locals>>

\* line 62
prune_squeeze_skip ==
    /\ pc = "apply_squeeze"
    /\ idx' = idx + 1
    /\ pc' = "apply_next"
    /\ UNCHANGED <<layers, calls, pruner, fault, masks, history, score_locals>>

prune_squeeze ==
    /\ pc = "apply_squeeze"
    /\ layers' = [layers EXCEPT ![Target(idx)] = squeeze_rank_capacity(@)]
    /\ calls' = Append(calls, Event("squeeze_rank_capacity", Target(idx)))
    /\ idx' = idx + 1
    /\ pc' = "apply_next"
    /\ UNCHANGED <<pruner, fault, masks, history, score_locals>>

----------------------------------------------------------------------------
(* The scoring strategies: AbstractPrunerBase, MagPruner, AlignmentPruner *)

\* create_mask(length, indices): every component active but the listed ones;
\* create_mask(length, [], inverted=True): the default mask, every component
\* active (spec.md section 4.2, steps 1, 4 and 5)
create_mask(length, indices, inverted) ==
    [j \in 1..length |-> IF inverted THEN TRUE ELSE (j - 1) \notin indices]

set_mask_on_layer(l, mask) == [layers EXCEPT ![l] = set_mask(@, mask)]

\* The forward-pass collaborator: the output reflects the current masks. The
\* network is linear here: every active stored component adds its singular value.
LayerOutput(layer) ==
    LET F[n \in 0..Len(layer.sv)] ==
            IF n = 0 THEN 0
            ELSE F[n - 1] + (IF n \in DOMAIN layer.mask /\ layer.mask[n]
                             THEN layer.sv[n] ELSE 0)
    IN  F[Len(layer.sv)]

model_call(ls) ==
    LET F[n \in 0..Len(ls)] == IF n = 0 THEN 0 ELSE F[n - 1] + LayerOutput(ls[n])
    IN  F[Len(ls)]

norm(x) == IF x < 0 THEN 0 - x ELSE x

\* Threshold selection (spec.md section 4.3). sc is the list of per-layer score
\* sequences; component (n, j) sorts before (m, i) when its score is lower, ties
\* broken by (layer, component) position.
SortsBefore(sc, n, j, m, i) ==
    \/ sc[n][j] < sc[m][i]
    \/ sc[n][j] = sc[m][i] /\ (n < m \/ (n = m /\ j < i))

NumToDrop(sparsity, count) == (sparsity * count) \div SparsityDen

TotalComponents(sc) ==
    LET F[n \in 0..Len(sc)] == IF n = 0 THEN 0 ELSE F[n - 1] + Len(sc[n])
    IN  F[Len(sc)]

LocalMask(sc, sparsity, m) ==
    [i \in 1..Len(sc[m]) |->
        Cardinality({j \in 1..Len(sc[m]) : SortsBefore(sc, m, j, m, i)})
            >= NumToDrop(sparsity, Len(sc[m]))]

GlobalMask(sc, sparsity, m) ==
    [i \in 1..Len(sc[m]) |->
        Cardinality({p \in UNION {{<<n, j>> : j \in 1..Len(sc[n])} : n \in 1..Len(sc)} :
                        SortsBefore(sc, p[1], p[2], m, i)})
            >= NumToDrop(sparsity, TotalComponents(sc))]

select_masks(scope, sparsity, sc) ==
    [m \in 1..Len(sc) |->
        IF scope = "LOCAL" THEN LocalMask(sc, sparsity, m) ELSE GlobalMask(sc, sparsity, m)]

\* MagPruner.compute_scores: the magnitudes of the stored singular values
compute_scores_mag ==
    /\ pc = "compute_masks"
    /\ pruner.cls = "MagPruner"
    /\ scores' = [n \in 1..NumTargets |-> layers[Target(n)].sv]
    /\ pc' = "select"
    /\ UNCHANGED <<layers, pruner, fault, prune_locals, calls, history,
                   layer_ind, comp, baseline, layer_scores>>

\* alignment_pruner.py line 25: assert self.data_x is not None
DataMissing_skip(data) == FALSE

DataMissing(data) == data = None

\* lines 25-26
compute_scores_assert ==
    /\ pc = "compute_masks"
    /\ pruner.cls = "AlignmentPruner"
    /\ IF DataMissing(pruner.data)
       THEN /\ fault' = "AssertionError: data_x"
            /\ pc' = "failed"
            /\ UNCHANGED <<scores, layer_ind>>
       ELSE /\ scores' = <<>>
            /\ layer_ind' = 1
            /\ pc' = IF NumTargets = 0 THEN "select" ELSE "score_layer"
            /\ fault' = fault
    /\ UNCHANGED <<layers, pruner, prune_locals, calls, history, comp, baseline,
                   layer_scores>>

Scored == layers[Target(layer_ind)]

\* lines 27-30
compute_scores_layer ==
    /\ pc = "score_layer"
    /\ layer_scores' = <<>>
    /\ layers' = set_mask_on_layer(Target(layer_ind),
                                   create_mask(Scored.rank_capacity, {}, FALSE))
    /\ pc' = "baseline_call"
    /\ UNCHANGED <<pruner, fault, prune_locals, calls, history, layer_ind, comp,
                   scores, baseline>>

\* lines 31-35
compute_scores_baseline ==
    /\ pc = "baseline_call"
    /\ baseline' = model_call(layers)
    /\ calls' = Append(calls, Event("call", 0))
    /\ comp' = 0
    /\ pc' = IF Scored.rank_capacity > 0 THEN "ablate" ELSE "restore"
    /\ UNCHANGED <<layers, pruner, fault, prune_locals, history, layer_ind, scores,
                   layer_scores>>

\* line 36
compute_scores_ablate ==
    /\ pc = "ablate"
    /\ layers' = set_mask_on_layer(Target(layer_ind),
                                   create_mask(Scored.rank_capacity, {comp}, FALSE))
    /\ pc' = "ablate_call"
    /\ UNCHANGED <<pruner, fault, prune_locals, calls, history, score_locals>>

\* lines 37-40
compute_scores_ablated ==
    /\ pc = "ablate_call"
    /\ layer_scores' = Append(layer_scores, norm(baseline - model_call(layers)))
    /\ calls' = Append(calls, Event("call", 0))
    /\ comp' = comp + 1
    /\ pc' = IF comp + 1 < Scored.rank_capacity THEN "ablate" ELSE "restore"
    /\ UNCHANGED <<layers, pruner, fault, prune_locals, history, layer_ind, scores,
                   baseline>>

\* lines 41-43: the mask the sweep leaves on the layer
RestoredMask_last(layer) ==
    create_mask(layer.rank_capacity, {layer.rank_capacity - 1}, FALSE)

RestoredMask(layer) == create_mask(layer.rank_capacity, {}, TRUE)

\* lines 41-44
compute_scores_restore ==
    /\ pc = "restore"
    /\ layers' = set_mask_on_layer(Target(layer_ind), RestoredMask(Scored))
    /\ scores' = Append(scores, layer_scores)
    /\ layer_ind' = layer_ind + 1
    /\ pc' = IF layer_ind < NumTargets THEN "score_layer" ELSE "select"
    /\ UNCHANGED <<pruner, fault, prune_locals, calls, history, comp, baseline,
                   layer_scores>>

\* AbstractPrunerBase.compute_masks: the scores thresholded by scope and sparsity
compute_masks_select ==
    /\ pc = "select"
    /\ masks' = select_masks(pruner.scope, pruner.sparsity, scores)
    /\ pc' = "check_count"
    /\ layer_ind' = 0
    /\ comp' = 0
    /\ scores' = <<>>
    /\ baseline' = 0
    /\ layer_scores' = <<>>
    /\ UNCHANGED <<layers, pruner, fault, idx, calls, history>>

Init ==
    /\ layers \in Models
    /\ pruner = NoPruner
    /\ pc = "idle"
    /\ fault = None
    /\ masks = <<>>
    /\ idx = 0
    /\ calls = <<>>
    /\ arg_sparsity = 0
    /\ entry = <<>>
    /\ before = <<>>
    /\ layer_ind = 0
    /\ comp = 0
    /\ scores = <<>>
    /\ baseline = 0
    /\ layer_scores = <<>>

Next ==
    \/ \E c \in ConstructorCalls : Pruner_init(c[1], c[2], c[3], c[4], c[5])
    \/ prune_init_capacity
    \/ compute_masks_base
    \/ compute_masks_stub
    \/ prune_check_count
    \/ prune_apply_next
    \/ prune_set_mask
    \/ prune_squeeze
    \/ compute_scores_mag
    \/ compute_scores_assert
    \/ compute_scores_layer
    \/ compute_scores_baseline
    \/ compute_scores_ablate
    \/ compute_scores_ablated
    \/ compute_scores_restore
    \/ compute_masks_select

Spec == Init /\ [][Next]_vars

----------------------------------------------------------------------------
(* Properties *)

IsTarget(l) == \E n \in 1..NumTargets : Target(n) = l

InPrune == pc \notin {"idle", "constructed", "rejected"}

Scoring ==
    pc \in {"compute_masks", "score_layer", "baseline_call", "ablate", "ablate_call",
            "restore", "select"}

NoMaskApplied ==
    \A l \in DOMAIN layers :
        CallsOf("set_mask", l) = 0 /\ CallsOf("squeeze_rank_capacity", l) = 0

NoCacheReset == CallsOf("_reset_compile_cache", 0) = 0

\* The calls prune() itself makes on layers and model (lines 61-63), in order.
\* The scorer's forward passes are the "call" events.
PruneCalls == SelectSeq(calls, LAMBDA e : e.op # "call")

ExpectedCalls ==
    LET F[n \in 0..NumTargets] ==
            IF n = 0 THEN <<>>
            ELSE F[n - 1] \o <<Event("set_mask", Target(n)),
                                Event("squeeze_rank_capacity", Target(n))>>
    IN  Append(F[NumTargets], Event("_reset_compile_cache", 0))

IsPrefix(s, t) == Len(s) <= Len(t) /\ SubSeq(t, 1, Len(s)) = s

AllActive(layer) ==
    /\ Len(layer.mask) = layer.rank_capacity
    /\ \A j \in DOMAIN layer.mask : layer.mask[j]

\* C1: when a mask of the wrong length makes prune() fail, no target layer has had
\* set_mask or squeeze_rank_capacity called on it and the compile cache is not
\* reset. The code checks each mask only when its turn comes, after the layers
\* before it were masked and squeezed.
C1_AbortAppliesNoMask ==
    fault = "AssertionError: mask length" => NoMaskApplied /\ NoCacheReset

\* C2: the constructor fails with the validation error exactly when the sparsity
\* argument is below 0 or above 1 (0 and 1 are accepted); a rejected pruner holds
\* model and scope only, an accepted one holds every attribute and the sparsity
\* it was given.
C2_SparsityValidated ==
    pc # "idle" =>
        /\ (pc = "rejected") <=> (arg_sparsity < 0 \/ arg_sparsity > SparsityDen)
        /\ pc = "rejected" =>
              /\ fault = "ValueError: sparsity"
              /\ pruner.attrs \cap {"sparsity", "data", "loss", "low_rank_layers"} = {}
        /\ pc # "rejected" =>
              /\ {"sparsity", "data", "loss", "low_rank_layers"} \subseteq pruner.attrs
              /\ pruner.sparsity = arg_sparsity

C2_Witness == pc = "rejected" /\ arg_sparsity > SparsityDen

\* C3: prune() gets past the count check only with one mask per target layer;
\* when the counts differ it fails with the mask-count error, and then no layer
\* was masked or squeezed and the compile cache was not reset.
C3_CountMismatchAborts ==
    /\ pc \in {"apply_next", "apply_set_mask", "apply_squeeze", "done"} =>
          Len(masks) = NumTargets
    /\ fault = "AssertionError: mask length" => Len(masks) = NumTargets
    /\ fault = "ValueError: mask count" =>
          /\ pc = "failed"
          /\ Len(masks) # NumTargets
          /\ NoMaskApplied
          /\ NoCacheReset

C3_Witness ==
    /\ fault = "ValueError: mask count"
    /\ NumTargets = 2
    /\ Len(masks) = 1

\* C4: whenever set_mask is about to be called, the mask is as long as the layer's
\* rank_capacity; the idx-th mask goes to the idx-th low-rank layer of the model,
\* the low-rank layers being listed in model order.
C4_MaskFitsLayer ==
    /\ pc = "apply_set_mask" =>
          /\ Len(masks[idx]) = layers[Target(idx)].rank_capacity
          /\ Cardinality({l \in 1..Target(idx) : layers[l].kind = "LowRank"}) = idx
    /\ pc = "apply_squeeze" => layers[Target(idx)].mask = masks[idx]

C4_Witness ==
    /\ pc = "apply_set_mask"
    /\ idx = 2
    /\ layers[Target(1)].rank_capacity # layers[Target(2)].rank_capacity

\* C5: from the moment compute_masks() is invoked and all through scoring, every
\* target layer has a rank_capacity; a layer whose rank_capacity was unset on
\* entry has rank_capacity = max_rank.
C5_CapacityBeforeScoring ==
    Scoring =>
        \A n \in 1..NumTargets :
            /\ layers[Target(n)].rank_capacity # NoCapacity
            /\ entry[Target(n)].rank_capacity = NoCapacity =>
                  layers[Target(n)].rank_capacity = layers[Target(n)].max_rank

C5_Witness ==
    /\ pc = "compute_masks"
    /\ NumTargets = 2
    /\ entry[Target(1)].rank_capacity = NoCapacity
    /\ entry[Target(2)].rank_capacity = NoCapacity

\* C6: a rank_capacity, once set, never grows and never becomes unset again, over
\* any sequence of prune() calls with fresh pruners; it never exceeds max_rank;
\* and a prune() that finds a capacity set scores against exactly that capacity.
C6_SqueezePersists ==
    /\ [][\A l \in DOMAIN layers :
            layers[l].rank_capacity # NoCapacity =>
                /\ layers'[l].rank_capacity # NoCapacity
                /\ layers'[l].rank_capacity <= layers[l].rank_capacity]_vars
    /\ [](\A l \in DOMAIN layers : layers[l].rank_capacity <= layers[l].max_rank)
    /\ [](Scoring =>
            \A n \in 1..NumTargets :
                entry[Target(n)].rank_capacity # NoCapacity =>
                    layers[Target(n)].rank_capacity = entry[Target(n)].rank_capacity)

C6_Witness ==
    /\ pc = "compute_masks"
    /\ \E n \in 1..NumTargets :
          /\ entry[Target(n)].rank_capacity # NoCapacity
          /\ entry[Target(n)].rank_capacity < layers[Target(n)].max_rank
          /\ entry[Target(n)].rank_capacity > 0

\* C7: the calls prune() makes are, in model order of the target layers, set_mask
\* then squeeze_rank_capacity on each layer, and last one reset of the compile
\* cache; a prune() that ran to its end made exactly these calls, and one that
\* failed never reset the compile cache.
C7_ApplyOrder ==
    InPrune =>
        /\ IsPrefix(PruneCalls, ExpectedCalls)
        /\ pc = "done" <=> PruneCalls = ExpectedCalls
        /\ pc = "failed" => NoCacheReset

C7_Witness == pc = "done" /\ NumTargets = 2

\* C8 as stated: when the alignment scorer rejects a missing reference input, no
\* layer's mask or rank_capacity differs from what it was when prune() was
\* entered and no forward pass has run.
C8_NoMutationBeforeFault ==
    fault = "AssertionError: data_x" =>
        /\ CallsOf("call", 0) = 0
        /\ \A l \in DOMAIN layers :
              /\ layers[l].mask = entry[l].mask
              /\ layers[l].rank_capacity = entry[l].rank_capacity

\* C8 amended: an alignment pruner without reference input never gets past the
\* precondition: prune() fails with the data_x fault, no forward pass has run and
\* the layers are as they were when compute_masks() was invoked. Against the
\* layers on entry to prune(), only the unset rank_capacities differ: prune() has
\* set them to max_rank.
C8_NoScoringWithoutData ==
    (pruner.cls = "AlignmentPruner" /\ pruner.data = None /\ InPrune) =>
        /\ pc \in {"compute_masks", "failed"}
        /\ pc = "failed" => fault = "AssertionError: data_x"
        /\ CallsOf("call", 0) = 0
        /\ layers = before
        /\ \A l \in DOMAIN layers :
              /\ layers[l].mask = entry[l].mask
              /\ layers[l].rank_capacity =
                    IF entry[l].kind = "LowRank" /\ entry[l].rank_capacity = NoCapacity
                    THEN layers[l].max_rank ELSE entry[l].rank_capacity

C8_Witness ==
    /\ fault = "AssertionError: data_x"
    /\ pc = "failed"
    /\ \E n \in 1..NumTargets : entry[Target(n)].rank_capacity = NoCapacity

\* C9: after a LOCAL-scope prune() by a scoring pruner, every target layer's
\* rank_capacity is its capacity when compute_masks() was invoked (max_rank if it
\* was unset on entry) less floor(sparsity * that capacity).
C9_LocalPruneCount ==
    (pc = "done" /\ pruner.scope = "LOCAL"
        /\ pruner.cls \in {"MagPruner", "AlignmentPruner"}) =>
        \A n \in 1..NumTargets :
            LET was == IF entry[Target(n)].rank_capacity = NoCapacity
                       THEN entry[Target(n)].max_rank
                       ELSE entry[Target(n)].rank_capacity
            IN  /\ before[Target(n)].rank_capacity = was
                /\ layers[Target(n)].rank_capacity
                      = was - ((pruner.sparsity * was) \div SparsityDen)

C9_Witness ==
    /\ pc = "done"
    /\ pruner.scope = "LOCAL"
    /\ pruner.cls = "MagPruner"
    /\ pruner.sparsity < SparsityDen
    /\ \E n \in 1..NumTargets :
          /\ layers[Target(n)].rank_capacity < before[Target(n)].rank_capacity
          /\ layers[Target(n)].rank_capacity > 0

\* C10: the alignment sweep scores the target layers one at a time, in order. At
\* every forward pass of layer k's sweep every other target layer has all its
\* components active; layer k has all active at the baseline pass and all but
\* component i at the i-th ablation pass. When the sweep moves to the next layer
\* and when compute_scores returns, every target layer has all components active.
C10_SweepIsolation ==
    /\ pc \in {"score_layer", "baseline_call", "ablate", "ablate_call", "restore"} =>
          /\ layer_ind \in 1..NumTargets
          /\ Len(scores) = layer_ind - 1
          /\ \A n \in 1..NumTargets : n # layer_ind => AllActive(layers[Target(n)])
    /\ pc \in {"score_layer", "baseline_call"} => AllActive(Scored)
    /\ pc = "ablate_call" =>
          /\ Len(Scored.mask) = Scored.rank_capacity
          /\ \A j \in DOMAIN Scored.mask : Scored.mask[j] <=> j # comp + 1
          /\ Len(layer_scores) = comp
    /\ (pc = "select" /\ pruner.cls = "AlignmentPruner") =>
          /\ Len(scores) = NumTargets
          /\ \A n \in 1..NumTargets :
                /\ AllActive(layers[Target(n)])
                /\ Len(scores[n]) = layers[Target(n)].rank_capacity

C10_Witness ==
    /\ pc = "ablate_call"
    /\ layer_ind = 2
    /\ comp = 1
====
